---- MODULE Spec2Model ----
(***************************************************************************)
(* Attendance Tracker API (src/main.py): the attendance computation and    *)
(* reconciliation core -- calendar lookups, the day view with its backfill, *)
(* the marking upsert and the period statistics -- as a state machine over  *)
(* the document collections the handlers read and write.                    *)
(*                                                                         *)
(* Dates are proleptic Gregorian ordinals, as datetime.date.toordinal().    *)
(* Percentages and thresholds are integers counting hundredths of a        *)
(* percent (66.67 % is 6667); the unrounded percentage attended/held*100    *)
(* is kept as the exact fraction it is.                                     *)
(***************************************************************************)
EXTENDS Integers, Sequences, FiniteSets, TLC

VARIABLES
    today,             \* datetime.utcnow().date(), as an ordinal
    student,           \* db.student, by student id
    academiccalendar,  \* db.academiccalendar: entries [date, type]
    teacherleave,      \* db.teacherleave: entries [subject_code, date]
    attendancerecord,  \* db.attendancerecord, in insertion order
    reqs,              \* requests in flight: each one's position and locals
    last               \* the last completed request and its response

vars == <<today, student, academiccalendar, teacherleave, attendancerecord, reqs, last>>

-----------------------------------------------------------------------------
(* Bounds of the model *)

MaxSessions == 2
MaxDay == 9
NumReqs == 2
MaxDayClock == 2

-----------------------------------------------------------------------------
(* datetime.date arithmetic *)

Max(a, b) == IF a >= b THEN a ELSE b

IsLeap(y) == (y % 4 = 0) /\ ((y % 100 # 0) \/ (y % 400 = 0))

DaysInMonth(y, m) ==
    IF m = 2 THEN (IF IsLeap(y) THEN 29 ELSE 28)
    ELSE IF m \in {4, 6, 9, 11} THEN 30 ELSE 31

DaysBeforeYear(y) ==
    LET p == y - 1 IN p * 365 + (p \div 4) - (p \div 100) + (p \div 400)

RECURSIVE DaysBeforeMonth(_, _)
DaysBeforeMonth(y, m) ==
    IF m = 1 THEN 0 ELSE DaysBeforeMonth(y, m - 1) + DaysInMonth(y, m - 1)

\* date(y, m, d).toordinal()
ymd2ord(y, m, d) == DaysBeforeYear(y) + DaysBeforeMonth(y, m) + d

\* date.fromordinal(n) as [year, month, day]
ord2ymd(n) ==
    LET y == CHOOSE yy \in (n \div 366)..((n \div 365) + 1) :
                 DaysBeforeYear(yy) < n /\ n <= DaysBeforeYear(yy + 1)
        r == n - DaysBeforeYear(y)
        m == CHOOSE mm \in 1..12 :
                 DaysBeforeMonth(y, mm) < r /\ r <= DaysBeforeMonth(y, mm) + DaysInMonth(y, mm)
    IN  [year |-> y, month |-> m, day |-> r - DaysBeforeMonth(y, m)]

\* d.weekday(): Monday is 0
weekday(d) == (d + 6) % 7

\* d.replace(day=1)
replace_day1(d) == LET c == ord2ymd(d) IN ymd2ord(c.year, c.month, 1)

\* The clock's first modelled day, Monday 2024-02-26; Day(4) is Friday 2024-03-01.
FirstDay == ymd2ord(2024, 2, 26)
Day(k) == FirstDay + k

-----------------------------------------------------------------------------
(* Documents *)

StudentIds == {"s1", "s2"}
Subjects == {"CS101", "CS102"}
Statuses == {"attended", "not_attended", "teacher_leave", "holiday", "mixed"}

\* min_threshold of a newly registered student: 0.67, i.e. 67.00 %
DefaultThreshold == 6700

NoStudent == [exists |-> FALSE, subjects |-> <<>>, min_threshold |-> DefaultThreshold]

NewStudent == [exists |-> TRUE, subjects |-> <<>>, min_threshold |-> DefaultThreshold]

Record(s, c, d, held, att, st) ==
    [student_id |-> s, subject_code |-> c, date |-> d,
     sessions_held |-> held, attended_count |-> att, status |-> st]

Idle == [pc |-> "idle"]

NoRequest == [op |-> "none"]

-----------------------------------------------------------------------------
(* Store operations *)

\* create_document(collection, doc): insert one document and nothing else; the
\* handlers do their own lookups before they call it
create_document(coll, doc) == Append(coll, doc)

SameKey(r, s, c, d) == r.student_id = s /\ r.subject_code = c /\ r.date = d

\* Positions of the documents matching {"student_id", "subject_code", "date"}
Matches(coll, s, c, d) == {i \in 1..Len(coll) : SameKey(coll[i], s, c, d)}

\* find_one: the first matching document's position, 0 for None
find_one(coll, s, c, d) ==
    LET m == Matches(coll, s, c, d)
    IN  IF m = {} THEN 0 ELSE CHOOSE i \in m : \A j \in m : i <= j

\* update_one(q, {"$set": body}): the first matching document takes body's fields
update_one(coll, s, c, d, body) ==
    LET i == find_one(coll, s, c, d)
    IN  IF i = 0 THEN coll ELSE [coll EXCEPT ![i] = body]

\* find({"student_id", "date"}) of the day view
RecordsOfDay(coll, s, d) ==
    SelectSeq(coll, LAMBDA r : r.student_id = s /\ r.date = d)

-----------------------------------------------------------------------------
(* Calendar lookup *)

is_holiday_in(cal, d) == \E e \in cal : e.date = d /\ e.type = "holiday"

is_teacher_leave_in(tl, c, d) == \E e \in tl : e.subject_code = c /\ e.date = d

is_holiday(d) == is_holiday_in(academiccalendar, d)

is_teacher_leave(c, d) == is_teacher_leave_in(teacherleave, c, d)

-----------------------------------------------------------------------------
(* Marking service *)

NormalizeNoFloor(p) ==
    IF is_holiday(p.date)
    THEN [p EXCEPT !.status = "holiday", !.attended_count = 0]
    ELSE IF is_teacher_leave(p.subject_code, p.date)
    THEN [p EXCEPT !.status = "teacher_leave", !.attended_count = 0]
    ELSE p

NormalizeLeaveKeepsCount(p) ==
    IF is_holiday(p.date)
    THEN [p EXCEPT !.status = "holiday",
                   !.sessions_held = Max(p.sessions_held, 1),
                   !.attended_count = 0]
    ELSE IF is_teacher_leave(p.subject_code, p.date)
    THEN [p EXCEPT !.status = "teacher_leave"]
    ELSE p

\* The calendar overrides applied to the payload before it is stored
Normalize(p) ==
    IF is_holiday(p.date)
    THEN [p EXCEPT !.status = "holiday",
                   !.sessions_held = Max(p.sessions_held, 1),
                   !.attended_count = 0]
    ELSE IF is_teacher_leave(p.subject_code, p.date)
    THEN [p EXCEPT !.status = "teacher_leave", !.attended_count = 0]
    ELSE p

UpsertAlwaysInsert(coll, body) == create_document(coll, body)

\* Upsert by (student_id, subject_code, date)
Upsert(coll, body) ==
    IF find_one(coll, body.student_id, body.subject_code, body.date) # 0
    THEN update_one(coll, body.student_id, body.subject_code, body.date, body)
    ELSE create_document(coll, body)

\* POST /attendance/mark, served alone
attendance_mark(p) ==
    /\ attendancerecord' = Upsert(attendancerecord, Normalize(p))
    /\ last' = [op |-> "mark", payload |-> p]
    /\ UNCHANGED <<today, student, academiccalendar, teacherleave, reqs>>

-----------------------------------------------------------------------------
(* Admin reference data *)

\* POST /admin/calendar
admin_add_calendar(d, type) ==
    /\ academiccalendar' = academiccalendar \cup {[date |-> d, type |-> type]}
    /\ last' = [op |-> "calendar", date |-> d, type |-> type]
    /\ UNCHANGED <<today, student, teacherleave, attendancerecord, reqs>>

\* POST /admin/teacher-leave
admin_teacher_leave(c, d) ==
    /\ teacherleave' = teacherleave \cup {[subject_code |-> c, date |-> d]}
    /\ last' = [op |-> "teacher_leave", subject_code |-> c, date |-> d]
    /\ UNCHANGED <<today, student, academiccalendar, attendancerecord, reqs>>

-----------------------------------------------------------------------------
(* Students and the clock *)

\* POST /auth/register-email: a new student has no subjects and threshold 0.67
register_email(s) ==
    /\ ~student[s].exists
    /\ student' = [student EXCEPT ![s] = NewStudent]
    /\ last' = [op |-> "register", student_id |-> s]
    /\ UNCHANGED <<today, academiccalendar, teacherleave, attendancerecord, reqs>>

\* PUT /student/{student_id}: $set of the payload's fields that are not None
update_student(s, payload) ==
    /\ student' = [student EXCEPT ![s] =
                     IF student[s].exists
                     THEN [f \in DOMAIN student[s] |->
                             IF f \in DOMAIN payload THEN payload[f] ELSE student[s][f]]
                     ELSE student[s]]
    /\ last' = [op |-> "update_student", student_id |-> s]
    /\ UNCHANGED <<today, academiccalendar, teacherleave, attendancerecord, reqs>>

\* The UTC date moves on to the next day
Tick(limit) ==
    /\ today < limit
    /\ today' = today + 1
    /\ UNCHANGED <<student, academiccalendar, teacherleave, attendancerecord, reqs, last>>

-----------------------------------------------------------------------------
(* Reconciliation engine *)

BackfillRecord(s, c, d) == Record(s, c, d, 0, 0, "holiday")

RECURSIVE BackfillNoLookup(_, _, _, _, _)
BackfillNoLookup(coll, subs, i, s, d) ==
    IF i > Len(subs) THEN coll
    ELSE LET code == subs[i]
             next == IF ~is_teacher_leave(code, d)
                     THEN create_document(coll, BackfillRecord(s, code, d))
                     ELSE coll
         IN  BackfillNoLookup(next, subs, i + 1, s, d)

RECURSIVE BackfillIgnoreLeave(_, _, _, _, _)
BackfillIgnoreLeave(coll, subs, i, s, d) ==
    IF i > Len(subs) THEN coll
    ELSE LET code == subs[i]
             next == IF find_one(coll, s, code, d) = 0
                     THEN create_document(coll, BackfillRecord(s, code, d))
                     ELSE coll
         IN  BackfillIgnoreLeave(next, subs, i + 1, s, d)

\* for code in subs: create the missing record unless the subject is on leave
RECURSIVE Backfill(_, _, _, _, _)
Backfill(coll, subs, i, s, d) ==
    IF i > Len(subs) THEN coll
    ELSE LET code == subs[i]
             next == IF ~is_teacher_leave(code, d) /\ find_one(coll, s, code, d) = 0
                     THEN create_document(coll, BackfillRecord(s, code, d))
                     ELSE coll
         IN  Backfill(next, subs, i + 1, s, d)

\* subs = s.get("subjects", []) if s else []
SubjectsOf(s) == IF student[s].exists THEN student[s].subjects ELSE <<>>

\* The store after the day view's backfill
DayStore(coll, s, d) ==
    IF d < today /\ ~is_holiday(d) THEN Backfill(coll, SubjectsOf(s), 1, s, d) ELSE coll

\* The suggested status of each enrolled subject that has one
Suggestions(s, d) ==
    LET subs == SubjectsOf(s)
        codes == {subs[i] : i \in 1..Len(subs)}
    IN  [c \in {x \in codes : is_holiday(d) \/ is_teacher_leave(x, d)} |->
            IF is_holiday(d) THEN "holiday" ELSE "teacher_leave"]

\* Whether request log entry l is a day view of student s and date d
IsDayRequest(l, s, d) == l.op = "day" /\ l.student_id = s /\ l.date = d

\* GET /attendance/day, served alone
attendance_day(s, d) ==
    LET after == DayStore(attendancerecord, s, d)
    IN  /\ attendancerecord' = after
        /\ last' = [op |-> "day", student_id |-> s, date |-> d, today |-> today,
                    repeat |-> IsDayRequest(last, s, d),
                    before |-> attendancerecord,
                    records |-> RecordsOfDay(after, s, d),
                    suggestions |-> Suggestions(s, d)]
        /\ UNCHANGED <<today, student, academiccalendar, teacherleave, reqs>>

-----------------------------------------------------------------------------
(* Statistics aggregator *)

StartOfWeekSunday(t) == t - ((weekday(t) + 1) % 7)

\* today - timedelta(days=today.weekday())
StartOfWeek(t) == t - weekday(t)

SemesterStartsOf(cal) == {e \in cal : e.type = "semester_start"}

\* find_one({"type": "semester_start"}, sort=[("date", -1)]), when there is one
LatestSemesterStart(cal) ==
    CHOOSE e \in SemesterStartsOf(cal) : \A f \in SemesterStartsOf(cal) : e.date >= f.date

\* The first day of the aggregation window
StatsStart(period) ==
    IF period = "weekly" THEN StartOfWeek(today)
    ELSE IF period = "monthly" THEN replace_day1(today)
    ELSE IF SemesterStartsOf(academiccalendar) # {}
         THEN LatestSemesterStart(academiccalendar).date
         ELSE replace_day1(today)

\* find({"student_id", "date": {"$gte": start, "$lte": today}})
RecordsInWindow(coll, s, start, end) ==
    SelectSeq(coll, LAMBDA r : r.student_id = s /\ r.date >= start /\ r.date <= end)

SkippedHolidayOnly(r) == r.status = "holiday"

\* if status in ("holiday", "teacher_leave"): continue
Skipped(r) == r.status \in {"holiday", "teacher_leave"}

\* Position of subject code in per_subject, 0 when it has no entry yet
SubjectIndex(per, code) ==
    IF \E i \in 1..Len(per) : per[i].subject_code = code
    THEN CHOOSE i \in 1..Len(per) : per[i].subject_code = code
    ELSE 0

\* One pass of the loop over the fetched records
Accumulate(acc, r) ==
    IF Skipped(r) THEN acc
    ELSE LET k == SubjectIndex(acc.per_subject, r.subject_code)
             per == IF k = 0
                    THEN Append(acc.per_subject,
                                [subject_code |-> r.subject_code, attended |-> 0, held |-> 0])
                    ELSE acc.per_subject
             j == IF k = 0 THEN Len(per) ELSE k
         IN  [total_attended |-> acc.total_attended + r.attended_count,
              total_held |-> acc.total_held + r.sessions_held,
              per_subject |-> [per EXCEPT ![j] =
                                  [subject_code |-> r.subject_code,
                                   attended |-> per[j].attended + r.attended_count,
                                   held |-> per[j].held + r.sessions_held]]]

RECURSIVE Aggregate(_, _, _)
Aggregate(recs, i, acc) ==
    IF i > Len(recs) THEN acc ELSE Aggregate(recs, i + 1, Accumulate(acc, recs[i]))

\* round(x, 2) of x = num/den * 100, in hundredths; a tie goes to the even one
Round2(num, den) ==
    LET q == (10000 * num) \div den
        r == (10000 * num) % den
    IN  IF 2 * r > den THEN q + 1
        ELSE IF 2 * r < den THEN q
        ELSE IF q % 2 = 0 THEN q ELSE q + 1

\* round(pct, 2) with pct = attended / held * 100 if held > 0 else 0.0
Percentage(attended, held) == IF held > 0 THEN Round2(attended, held) ELSE 0

\* float(s.get("min_threshold", 0.67)) * 100 if s else 67.0
Threshold(s) == IF student[s].exists THEN student[s].min_threshold ELSE DefaultThreshold

AlertOnRounded(attended, held, threshold) == Percentage(attended, held) < threshold

\* overall_pct < threshold, overall_pct being the unrounded percentage
Alert(attended, held, threshold) ==
    IF held > 0 THEN 10000 * attended < threshold * held ELSE 0 < threshold

\* The response of GET /attendance/stats
StatsResponse(s, period) ==
    LET start == StatsStart(period)
        recs == RecordsInWindow(attendancerecord, s, start, today)
        acc == Aggregate(recs, 1, [total_attended |-> 0, total_held |-> 0, per_subject |-> <<>>])
        threshold == Threshold(s)
    IN  [period |-> period, from |-> start, to |-> today,
         overall |-> [attended |-> acc.total_attended, held |-> acc.total_held,
                      percentage |-> Percentage(acc.total_attended, acc.total_held),
                      threshold |-> threshold,
                      alert |-> Alert(acc.total_attended, acc.total_held, threshold)],
         subjects |-> [i \in 1..Len(acc.per_subject) |->
                         [subject_code |-> acc.per_subject[i].subject_code,
                          attended |-> acc.per_subject[i].attended,
                          held |-> acc.per_subject[i].held,
                          percentage |-> Percentage(acc.per_subject[i].attended,
                                                    acc.per_subject[i].held)]]]

\* GET /attendance/stats
attendance_stats(s, period) ==
    /\ last' = [op |-> "stats", student_id |-> s, today |-> today,
                response |-> StatsResponse(s, period)]
    /\ UNCHANGED <<today, student, academiccalendar, teacherleave, attendancerecord, reqs>>

-----------------------------------------------------------------------------
(* Marking and calendar overrides: one student, one marked date *)

MarkDate == Day(1)
HolidayDates == {Day(0), Day(1)}

\* "attended", "not_attended" and "mixed" are handled alike by every handler
MarkStatuses == Statuses \ {"attended", "not_attended"}

MarkPayloads ==
    {Record("s1", c, MarkDate, held, att, st) :
        c \in Subjects, held \in 0..MaxSessions, att \in {0, MaxSessions}, st \in MarkStatuses}

\* Student s1 has registered and enrolled in both subjects; nothing is marked
Init ==
    /\ today = Day(3)
    /\ student = [s \in StudentIds |->
                    IF s = "s1" THEN [NewStudent EXCEPT !.subjects = <<"CS101", "CS102">>]
                    ELSE NoStudent]
    /\ academiccalendar = {}
    /\ teacherleave = {}
    /\ attendancerecord = <<>>
    /\ reqs = [r \in 1..NumReqs |-> Idle]
    /\ last = NoRequest

AddHoliday == \E d \in HolidayDates : admin_add_calendar(d, "holiday")

AddLeave == \E c \in Subjects : admin_teacher_leave(c, MarkDate)

Mark == \E p \in MarkPayloads : attendance_mark(p)

DayView == attendance_day("s1", MarkDate)

Next == AddHoliday \/ AddLeave \/ Mark \/ DayView

Spec == Init /\ [][Next]_vars

\* The stored records of the key the last mark request named
LastMarked ==
    LET p == last.payload
    IN  {attendancerecord[i] :
            i \in Matches(attendancerecord, p.student_id, p.subject_code, p.date)}

\* C2: after a mark request served alone, whether it inserted or overwrote (a
\* marked or a backfilled record), the store holds exactly one record of the
\* request's (student_id, subject_code, date), carrying the request's
\* normalized sessions_held, attended_count and status.
C2_UpsertLatest ==
    last.op = "mark" =>
        LET p == last.payload
            m == Matches(attendancerecord, p.student_id, p.subject_code, p.date)
            held == IF is_holiday(p.date) THEN Max(p.sessions_held, 1) ELSE p.sessions_held
            att == IF is_holiday(p.date) \/ is_teacher_leave(p.subject_code, p.date)
                   THEN 0 ELSE p.attended_count
            st == IF is_holiday(p.date) THEN "holiday"
                  ELSE IF is_teacher_leave(p.subject_code, p.date) THEN "teacher_leave"
                  ELSE p.status
        IN  /\ Cardinality(m) = 1
            /\ \A i \in m :
                  /\ attendancerecord[i].sessions_held = held
                  /\ attendancerecord[i].attended_count = att
                  /\ attendancerecord[i].status = st

\* A mark request has overwritten the older of two stored records, the other
\* one being a backfilled record.
C2_Witness ==
    /\ last.op = "mark"
    /\ Len(attendancerecord) = 2
    /\ SameKey(attendancerecord[1], last.payload.student_id,
               last.payload.subject_code, last.payload.date)
    /\ attendancerecord[1].sessions_held = 2
    /\ attendancerecord[1].status = "mixed"
    /\ attendancerecord[2] = BackfillRecord("s1", attendancerecord[2].subject_code, MarkDate)

C6_ExcusedHaveNoAttendance ==
    \A i \in 1..Len(attendancerecord) :
        attendancerecord[i].status \in {"holiday", "teacher_leave"} =>
            attendancerecord[i].attended_count = 0

-----------------------------------------------------------------------------
(* Day view and backfill: one viewed date, the clock passing over it *)

DayDate == Day(1)

SubjectLists == {<<>>, <<"CS101">>, <<"CS101", "CS102">>, <<"CS102", "CS102">>}

DayMarkPayloads ==
    {Record("s1", c, DayDate, 1, 1, "attended") : c \in Subjects}
        \cup {Record("s1", "CS101", Day(0), 1, 1, "attended")}

InitDay ==
    /\ today = Day(0)
    /\ student = [s \in StudentIds |-> NoStudent]
    /\ academiccalendar = {}
    /\ teacherleave = {}
    /\ attendancerecord = <<>>
    /\ reqs = [r \in 1..NumReqs |-> Idle]
    /\ last = NoRequest

DayRegister == register_email("s1")

DayEnrol == \E subs \in SubjectLists : update_student("s1", [subjects |-> subs])

DayHoliday == admin_add_calendar(DayDate, "holiday")

DayLeave == \E c \in Subjects : admin_teacher_leave(c, DayDate)

DayMark == \E p \in DayMarkPayloads : attendance_mark(p)

DayRequest == \E s \in StudentIds : attendance_day(s, DayDate)

DayTick == Tick(Day(MaxDayClock))

NextDay ==
    DayRegister \/ DayEnrol \/ DayHoliday \/ DayLeave \/ DayMark \/ DayRequest \/ DayTick

SpecDay == InitDay /\ [][NextDay]_vars

\* C3: a day view of a date that was before today, repeated with no request
\* served in between, creates no record and returns the records the first
\* one returned.
C3_DayViewTwice ==
    [][\A s \in StudentIds :
          (/\ IsDayRequest(last, s, DayDate)
           /\ DayDate < last.today
           /\ attendance_day(s, DayDate))
          => (/\ attendancerecord' = attendancerecord
              /\ last'.records = last.records)]_vars

\* The same day view was served twice in a row, the first one having
\* backfilled a record.
C3_Witness ==
    /\ last.op = "day"
    /\ last.repeat
    /\ last.date < last.today
    /\ \E i \in 1..Len(last.records) :
          last.records[i] = BackfillRecord(last.student_id, "CS102", last.date)
    /\ \E i \in 1..Len(last.records) : last.records[i].status = "attended"

\* The subjects a day view has to backfill, given the store it found
ToBackfill(before, s, d, t) ==
    IF d < t /\ ~is_holiday(d) /\ student[s].exists
    THEN {c \in {student[s].subjects[i] : i \in 1..Len(student[s].subjects)} :
            ~is_teacher_leave(c, d) /\ Matches(before, s, c, d) = {}}
    ELSE {}

\* C9: a day view leaves every record it found unchanged and in place, and
\* adds exactly one record (sessions_held 0, attended_count 0, status holiday)
\* for each enrolled subject that is not on leave and had no record of that
\* date, when the date is before today and no holiday; otherwise, or when the
\* student is not found, it adds nothing.
C9_DayViewFrame ==
    last.op = "day" =>
        LET n == Len(last.before)
            new == ToBackfill(last.before, last.student_id, last.date, last.today)
        IN  /\ Len(attendancerecord) = n + Cardinality(new)
            /\ SubSeq(attendancerecord, 1, n) = last.before
            /\ {attendancerecord[i] : i \in (n + 1)..Len(attendancerecord)}
                   = {BackfillRecord(last.student_id, c, last.date) : c \in new}

\* A day view found a marked record, skipped a subject on leave and
\* backfilled the other subject.
C9_Witness ==
    /\ last.op = "day"
    /\ Len(last.before) >= 1
    /\ Len(attendancerecord) = Len(last.before) + 1
    /\ student[last.student_id].subjects = <<"CS101", "CS102">>
    /\ is_teacher_leave("CS101", last.date)
    /\ Matches(attendancerecord, last.student_id, "CS101", last.date) = {}

-----------------------------------------------------------------------------
(* Statistics over a store of marked records, on Friday 2024-03-01 *)

Periods == {"weekly", "monthly", "semester"}

StatsToday == Day(4)

\* min_threshold 0.67, 0.6667 and 0.5
StatsThresholds == {DefaultThreshold, 6667, 5000}

StatsPayloads ==
    {Record("s1", c, StatsToday, 1, 1, "attended") : c \in Subjects}
        \cup {Record("s1", "CS101", StatsToday, MaxSessions, 1, st) :
                 st \in {"mixed", "holiday", "teacher_leave"}}
        \cup {Record("s1", "CS101", Day(1), 1, 1, "attended"),
              Record("s1", "CS102", Day(5), 1, 1, "attended"),
              Record("s2", "CS101", StatsToday, 1, 1, "attended")}

\* Student s1 has registered; s2 never does
InitStats ==
    /\ today = StatsToday
    /\ student = [s \in StudentIds |-> IF s = "s1" THEN NewStudent ELSE NoStudent]
    /\ academiccalendar = {}
    /\ teacherleave = {}
    /\ attendancerecord = <<>>
    /\ reqs = [r \in 1..NumReqs |-> Idle]
    /\ last = NoRequest

StatsSetThreshold == \E t \in StatsThresholds : update_student("s1", [min_threshold |-> t])

StatsMark == \E p \in StatsPayloads : attendance_mark(p)

StatsRequest == \E s \in StudentIds, period \in Periods : attendance_stats(s, period)

NextStats == StatsSetThreshold \/ StatsMark \/ StatsRequest

SpecStats == InitStats /\ [][NextStats]_vars

RECURSIVE SumOver(_, _, _)
SumOver(coll, idx, field) ==
    IF idx = {} THEN 0
    ELSE LET i == CHOOSE j \in idx : TRUE
         IN  coll[i][field] + SumOver(coll, idx \ {i}, field)

\* The positions of the records a stats response has to count
Counted(coll, s, from, to) ==
    {i \in 1..Len(coll) :
        /\ coll[i].student_id = s
        /\ from <= coll[i].date /\ coll[i].date <= to
        /\ coll[i].status \notin {"holiday", "teacher_leave"}}

\* The store without its i-th record
Without(coll, i) == SubSeq(coll, 1, i - 1) \o SubSeq(coll, i + 1, Len(coll))

\* C7: the overall and per-subject held and attended totals of a stats
\* response are the sums of sessions_held and attended_count over the
\* student's records dated in the response's window whose status is neither
\* holiday nor teacher_leave, and the response to the same request over the
\* store without any one holiday or teacher_leave record is the same.
C7_StatsTotals ==
    last.op = "stats" =>
        LET resp == last.response
            idx == Counted(attendancerecord, last.student_id, resp.from, resp.to)
            of(c) == {i \in idx : attendancerecord[i].subject_code = c}
        IN  /\ resp.overall.held = SumOver(attendancerecord, idx, "sessions_held")
            /\ resp.overall.attended = SumOver(attendancerecord, idx, "attended_count")
            /\ \A c \in Subjects :
                  LET at == {k \in 1..Len(resp.subjects) : resp.subjects[k].subject_code = c}
                  IN  /\ Cardinality(at) = IF of(c) = {} THEN 0 ELSE 1
                      /\ \A k \in at :
                            /\ resp.subjects[k].held = SumOver(attendancerecord, of(c), "sessions_held")
                            /\ resp.subjects[k].attended = SumOver(attendancerecord, of(c), "attended_count")
            /\ \A i \in 1..Len(attendancerecord) :
                  attendancerecord[i].status \in {"holiday", "teacher_leave"} =>
                      LET recs == RecordsInWindow(Without(attendancerecord, i),
                                                  last.student_id, resp.from, resp.to)
                          acc == Aggregate(recs, 1, [total_attended |-> 0, total_held |-> 0,
                                                     per_subject |-> <<>>])
                      IN  /\ acc.total_held = resp.overall.held
                          /\ acc.total_attended = resp.overall.attended
                          /\ Len(acc.per_subject) = Len(resp.subjects)
                          /\ \A k \in 1..Len(resp.subjects) :
                                /\ acc.per_subject[k].subject_code = resp.subjects[k].subject_code
                                /\ acc.per_subject[k].held = resp.subjects[k].held
                                /\ acc.per_subject[k].attended = resp.subjects[k].attended

\* A stats response counted one record while the window held a
\* teacher_leave record with positive counts and the store a record dated
\* before the window.
C7_Witness ==
    /\ last.op = "stats"
    /\ last.student_id = "s1"
    /\ last.response.period = "monthly"
    /\ last.response.overall.held = 1
    /\ \E i, k \in 1..Len(attendancerecord) :
          /\ attendancerecord[i] = Record("s1", "CS101", StatsToday, MaxSessions, 1, "teacher_leave")
          /\ attendancerecord[k].date = Day(1)

\* C8 as stated: alert is true exactly when the percentage the response
\* reports (rounded to 2 decimal places) is below the threshold it reports.
C8_AlertOnReported ==
    last.op = "stats" =>
        (last.response.overall.alert
            <=> last.response.overall.percentage < last.response.overall.threshold)

\* C8 amended: alert is true exactly when the unrounded percentage,
\* attended/held x 100 (0 when held is 0), is below the reported threshold;
\* the reported percentage is that value rounded to 2 decimal places.
C8_AlertOnExact ==
    last.op = "stats" =>
        LET o == last.response.overall
        IN  /\ o.threshold = IF student[last.student_id].exists
                             THEN student[last.student_id].min_threshold ELSE 6700
            /\ o.held = 0 => (o.percentage = 0 /\ (o.alert <=> 0 < o.threshold))
            /\ o.held > 0 =>
                  /\ o.alert <=> (o.attended * 100 * 100 < o.threshold * o.held)
                  /\ 2 * o.held * o.percentage - o.held <= 2 * 10000 * o.attended
                  /\ 2 * 10000 * o.attended <= 2 * o.held * o.percentage + o.held

\* A stats response reports 66.67 % (2 of 3) against the threshold 67.0 with
\* the alert raised.
C8_Witness ==
    /\ last.op = "stats"
    /\ last.response.overall.attended = 2
    /\ last.response.overall.held = 3
    /\ last.response.overall.percentage = 6667
    /\ last.response.overall.threshold = 6700
    /\ last.response.overall.alert

-----------------------------------------------------------------------------
(* Window resolution: the clock running from Monday 2024-02-26 into March *)

SemesterStartDates == {Day(0 - 30), Day(2), Day(6)}

WindowEvents ==
    {[date |-> d, type |-> "semester_start"] : d \in SemesterStartDates}
        \cup {[date |-> Day(8), type |-> "holiday"]}

WindowPayloads ==
    {Record("s1", "CS101", Day(2), 1, 1, "attended"),
     Record("s1", "CS101", Day(5), 1, 1, "attended")}

\* Student s1 has registered; the calendar is still empty
InitWindow ==
    /\ today = Day(0)
    /\ student = [s \in StudentIds |-> IF s = "s1" THEN NewStudent ELSE NoStudent]
    /\ academiccalendar = {}
    /\ teacherleave = {}
    /\ attendancerecord = <<>>
    /\ reqs = [r \in 1..NumReqs |-> Idle]
    /\ last = NoRequest

WindowEvent == \E e \in WindowEvents : admin_add_calendar(e.date, e.type)

WindowMark == \E p \in WindowPayloads : attendance_mark(p)

WindowRequest == \E period \in Periods : attendance_stats("s1", period)

WindowTick == Tick(Day(MaxDay))

NextWindow == WindowEvent \/ WindowMark \/ WindowRequest \/ WindowTick

SpecWindow == InitWindow /\ [][NextWindow]_vars

\* Monday 2024-02-26 is Day(0)
IsMonday(d) == (d - Day(0)) % 7 = 0

\* d is the first day of the month t lies in
IsFirstOfMonthOf(d, t) ==
    /\ d <= t
    /\ ord2ymd(d).day = 1
    /\ \A e \in (d + 1)..t : ord2ymd(e).day # 1

\* C10: a stats response aggregates over [from, to] with to the day of the
\* request (today) and from
\* the most recent Monday on or before today (weekly), the first day of
\* today's month (monthly), or the maximum date among the semester_start
\* calendar entries, the first day of today's month when there is none
\* (semester).
C10_Window ==
    last.op = "stats" =>
        LET resp == last.response
            starts == {e.date : e \in {x \in academiccalendar : x.type = "semester_start"}}
            inside == {i \in 1..Len(attendancerecord) :
                         /\ attendancerecord[i].student_id = last.student_id
                         /\ resp.from <= attendancerecord[i].date
                         /\ attendancerecord[i].date <= last.today}
        IN  /\ resp.to = last.today
            /\ resp.period = "weekly" =>
                  (IsMonday(resp.from) /\ resp.from <= last.today /\ last.today - resp.from <= 6)
            /\ resp.period = "monthly" => IsFirstOfMonthOf(resp.from, last.today)
            /\ resp.period = "semester" =>
                  IF starts # {}
                  THEN resp.from \in starts /\ \A d \in starts : d <= resp.from
                  ELSE IsFirstOfMonthOf(resp.from, last.today)
            /\ resp.overall.held = Cardinality(inside)
            /\ resp.overall.attended = Cardinality(inside)

\* A semester stats response took the later of two semester_start entries,
\* with a later holiday entry in the calendar, and counted both records.
C10_Witness ==
    /\ last.op = "stats"
    /\ last.response.period = "semester"
    /\ last.response.from = Day(2)
    /\ [date |-> Day(0 - 30), type |-> "semester_start"] \in academiccalendar
    /\ [date |-> Day(8), type |-> "holiday"] \in academiccalendar
    /\ last.response.overall.held = 2

\* A weekly stats response on a Wednesday starts on the Monday two days before.
C10_WitnessWeekly ==
    /\ last.op = "stats"
    /\ last.response.period = "weekly"
    /\ last.today = Day(9)
    /\ last.response.from = Day(7)

-----------------------------------------------------------------------------
(* Requests served concurrently: every store call of a handler is a step *)

\* attendance_mark up to its upsert: the payload is normalized
mark_begin(r, p) ==
    /\ reqs[r].pc = "idle"
    /\ reqs' = [reqs EXCEPT ![r] = [pc |-> "mark_find", payload |-> p, body |-> Normalize(p)]]
    /\ UNCHANGED <<today, student, academiccalendar, teacherleave, attendancerecord, last>>

\* doc = db.attendancerecord.find_one(q)
mark_find(r) ==
    /\ reqs[r].pc = "mark_find"
    /\ LET b == reqs[r].body
       IN  reqs' = [reqs EXCEPT ![r] =
              [pc |-> "mark_write", payload |-> reqs[r].payload, body |-> b,
               doc |-> find_one(attendancerecord, b.student_id, b.subject_code, b.date) # 0]]
    /\ UNCHANGED <<today, student, academiccalendar, teacherleave, attendancerecord, last>>

\* if doc: update_one(q, {"$set": body}) else: create_document(body)
mark_write(r) ==
    /\ reqs[r].pc = "mark_write"
    /\ LET b == reqs[r].body
       IN  attendancerecord' =
              IF reqs[r].doc
              THEN update_one(attendancerecord, b.student_id, b.subject_code, b.date, b)
              ELSE create_document(attendancerecord, b)
    /\ last' = [op |-> "mark", payload |-> reqs[r].payload]
    /\ reqs' = [reqs EXCEPT ![r] = Idle]
    /\ UNCHANGED <<today, student, academiccalendar, teacherleave>>

\* The day view's position after the subject at position i is dealt with
DayAdvance(l, i) ==
    IF i + 1 > Len(l.subs)
    THEN [pc |-> "day_list", student_id |-> l.student_id, date |-> l.date, subs |-> l.subs]
    ELSE [pc |-> "day_lookup", student_id |-> l.student_id, date |-> l.date,
          subs |-> l.subs, i |-> i + 1]

\* attendance_day up to its loop: today, the student's subjects, the holiday test
day_begin(r, s, d) ==
    /\ reqs[r].pc = "idle"
    /\ LET l == [student_id |-> s, date |-> d, subs |-> SubjectsOf(s)]
       IN  reqs' = [reqs EXCEPT ![r] =
              IF d < today /\ ~is_holiday(d) THEN DayAdvance(l, 0)
              ELSE [pc |-> "day_list", student_id |-> s, date |-> d, subs |-> l.subs]]
    /\ UNCHANGED <<today, student, academiccalendar, teacherleave, attendancerecord, last>>

\* if not is_teacher_leave(code, d): if not find_one(q): ...
day_lookup(r) ==
    /\ reqs[r].pc = "day_lookup"
    /\ LET l == reqs[r]
           code == l.subs[l.i]
       IN  reqs' = [reqs EXCEPT ![r] =
              IF /\ ~is_teacher_leave(code, l.date)
                 /\ find_one(attendancerecord, l.student_id, code, l.date) = 0
              THEN [l EXCEPT !.pc = "day_insert"]
              ELSE DayAdvance(l, l.i)]
    /\ UNCHANGED <<today, student, academiccalendar, teacherleave, attendancerecord, last>>

\* create_document("attendancerecord", {... "status": "holiday"})
day_insert(r) ==
    /\ reqs[r].pc = "day_insert"
    /\ LET l == reqs[r]
       IN  /\ attendancerecord' =
                 create_document(attendancerecord,
                                 BackfillRecord(l.student_id, l.subs[l.i], l.date))
           /\ reqs' = [reqs EXCEPT ![r] = DayAdvance(l, l.i)]
    /\ UNCHANGED <<today, student, academiccalendar, teacherleave, last>>

\* records = list(find({"student_id", "date"})), the suggestions, the response
day_list(r) ==
    /\ reqs[r].pc = "day_list"
    /\ LET l == reqs[r]
       IN  last' = [op |-> "day", student_id |-> l.student_id, date |-> l.date,
                    today |-> today,
                    records |-> RecordsOfDay(attendancerecord, l.student_id, l.date),
                    suggestions |-> Suggestions(l.student_id, l.date)]
    /\ reqs' = [reqs EXCEPT ![r] = Idle]
    /\ UNCHANGED <<today, student, academiccalendar, teacherleave, attendancerecord>>

ConcDate == Day(1)

ConcPayloads ==
    {Record("s1", "CS101", ConcDate, 1, 1, "attended"),
     Record("s1", "CS101", ConcDate, 1, 0, "not_attended")}

\* Student s1 has registered and enrolled in both subjects
InitConc ==
    /\ today = Day(3)
    /\ student = [s \in StudentIds |->
                    IF s = "s1" THEN [NewStudent EXCEPT !.subjects = <<"CS101", "CS102">>]
                    ELSE NoStudent]
    /\ academiccalendar = {}
    /\ teacherleave = {}
    /\ attendancerecord = <<>>
    /\ reqs = [r \in 1..NumReqs |-> Idle]
    /\ last = NoRequest

ConcMarkBegin == \E r \in 1..NumReqs, p \in ConcPayloads : mark_begin(r, p)

ConcMarkFind == \E r \in 1..NumReqs : mark_find(r)

ConcMarkWrite == \E r \in 1..NumReqs : mark_write(r)

ConcDayBegin == \E r \in 1..NumReqs : day_begin(r, "s1", ConcDate)

ConcDayLookup == \E r \in 1..NumReqs : day_lookup(r)

ConcDayInsert == \E r \in 1..NumReqs : day_insert(r)

ConcDayList == \E r \in 1..NumReqs : day_list(r)

NextConc ==
    \/ ConcMarkBegin \/ ConcMarkFind \/ ConcMarkWrite
    \/ ConcDayBegin \/ ConcDayLookup \/ ConcDayInsert \/ ConcDayList

SpecConc == InitConc /\ [][NextConc]_vars

\* C1: the store never holds two records of one (student_id, subject_code,
\* date), however the steps of concurrently served mark and day-view
\* requests interleave.
C1_UniqueKey ==
    \A i, j \in 1..Len(attendancerecord) :
        (/\ attendancerecord[i].student_id = attendancerecord[j].student_id
         /\ attendancerecord[i].subject_code = attendancerecord[j].subject_code
         /\ attendancerecord[i].date = attendancerecord[j].date) => i = j

====
